---- MODULE Spec2Model ----
(***************************************************************************)
(* A model of the form store of src/src/use-form-path.jsx (FormProvider):  *)
(* four path-addressed trees (values, dirty flags, errors, unique ids),    *)
(* the local validator registry, the invalid path set and validity flag,   *)
(* the two observer registries, and every operation the context exposes.   *)
(*                                                                         *)
(* JavaScript values are records [t, v, kids]:                             *)
(*   t    "undefined" | "null" | "str" | "bool" | "num" | "obj" | "arr"    *)
(*        | "hole" (an index of an array that holds no property)           *)
(*   v    the characters of a string, <<"true">>/<<"false">>, <<"0">>..    *)
(*   kids the properties of an object in Object.keys order, or the         *)
(*        elements of an array in index order, as records [k, n]           *)
(* A path string is the sequence of its segments [k, br]: br says the      *)
(* segment is written in brackets, so 'items[0]' and 'items.0' are two     *)
(* strings that lodash parses to the same property path.                   *)
(***************************************************************************)
EXTENDS Integers, Sequences, FiniteSets, TLC

\* ------------------------------------------------------------------ bounds
\* Number of public operations called on one store.
MaxSteps == 3
\* Largest array index a path segment is read as.
MaxIndex == 6
\* Number of calls in a session of subscriptions, disposals and setValue calls.
MaxObserverSteps == 5
\* Number of calls in a session that asks for unique ids.
MaxIdSteps == 4
\* Number of calls in a session whose observers call back into the store.
MaxReentrantSteps == 3

\* ------------------------------------------------------------ JS values
Undefined == [t |-> "undefined", v |-> <<>>, kids |-> <<>>]
Null == [t |-> "null", v |-> <<>>, kids |-> <<>>]
Hole == [t |-> "hole", v |-> <<>>, kids |-> <<>>]
Str(chars) == [t |-> "str", v |-> chars, kids |-> <<>>]
Bool(b) == [t |-> "bool", v |-> IF b THEN <<"true">> ELSE <<"false">>, kids |-> <<>>]
Num(d) == [t |-> "num", v |-> <<d>>, kids |-> <<>>]
Obj(kids) == [t |-> "obj", v |-> <<>>, kids |-> kids]
Arr(kids) == [t |-> "arr", v |-> <<>>, kids |-> kids]
Prop1(k, n) == [k |-> k, n |-> n]
Elems(ns) == [i \in 1..Len(ns) |-> [k |-> "", n |-> ns[i]]]

EmptyStr == Str(<<>>)
JsFalse == Bool(FALSE)
JsTrue == Bool(TRUE)

\* JavaScript truthiness (ToBoolean).
Truthy(n) ==
  CASE n.t \in {"obj", "arr"} -> TRUE
    [] n.t = "str" -> n.v # <<>>
    [] n.t = "bool" -> n.v = <<"true">>
    [] n.t = "num" -> n.v # <<"0">>
    [] OTHER -> FALSE

\* lodash isObject.
IsObject(n) == n.t \in {"obj", "arr"}

\* lodash isIndex on a path segment.
IsIndex(k) == \E i \in 0..MaxIndex : ToString(i) = k
IndexOf(k) == CHOOSE i \in 0..MaxIndex : ToString(i) = k

\* ------------------------------------------------------------ path strings
Dot(k) == [k |-> k, br |-> FALSE]
Brk(k) == [k |-> k, br |-> TRUE]
\* lodash castPath/stringToPath: the property names of a path string.
stringToPath(path) == [i \in 1..Len(path) |-> path[i].k]

\* ------------------------------------------------------------ lodash get
\* object[key] for one property name (the step of baseGet).
GetProp(n, k) ==
  CASE n.t = "obj" ->
         IF \E i \in 1..Len(n.kids) : n.kids[i].k = k
         THEN n.kids[CHOOSE i \in 1..Len(n.kids) : n.kids[i].k = k].n
         ELSE Undefined
    [] n.t = "arr" ->
         IF IsIndex(k) /\ IndexOf(k) < Len(n.kids) /\ n.kids[IndexOf(k) + 1].n.t # "hole"
         THEN n.kids[IndexOf(k) + 1].n
         ELSE Undefined
    [] n.t = "str" ->
         IF IsIndex(k) /\ IndexOf(k) < Len(n.v)
         THEN Str(<<n.v[IndexOf(k) + 1]>>)
         ELSE Undefined
    [] OTHER -> Undefined

RECURSIVE baseGet(_, _)
baseGet(n, keys) ==
  IF keys = <<>> THEN n
  ELSE IF n.t \in {"undefined", "null"} THEN Undefined
  ELSE baseGet(GetProp(n, Head(keys)), Tail(keys))

\* get(object, path, defaultValue): the default stands in for undefined.
get(object, path, defaultValue) ==
  LET result == baseGet(object, stringToPath(path))
  IN IF result = Undefined THEN defaultValue ELSE result

\* ------------------------------------------------------------ lodash set
\* Position of a new property among the keys of an object: integer keys first,
\* ascending, then string keys in insertion order (Object.keys order).
InsertAt(kids, k) ==
  IF IsIndex(k)
  THEN Cardinality({i \in 1..Len(kids) : IsIndex(kids[i].k) /\ IndexOf(kids[i].k) < IndexOf(k)}) + 1
  ELSE Len(kids) + 1

\* assignValue(object, key, value) on an object or an array.
assignValue(n, k, value) ==
  CASE n.t = "obj" ->
         IF \E i \in 1..Len(n.kids) : n.kids[i].k = k
         THEN Obj([i \in 1..Len(n.kids) |->
                     IF n.kids[i].k = k THEN Prop1(k, value) ELSE n.kids[i]])
         ELSE LET at == InsertAt(n.kids, k)
              IN Obj(SubSeq(n.kids, 1, at - 1) \o <<Prop1(k, value)>>
                       \o SubSeq(n.kids, at, Len(n.kids)))
    [] n.t = "arr" /\ IsIndex(k) ->
         LET i == IndexOf(k) + 1
         IN Arr([j \in 1..(IF i > Len(n.kids) THEN i ELSE Len(n.kids)) |->
                   IF j = i THEN Prop1("", value)
                   ELSE IF j <= Len(n.kids) THEN n.kids[j]
                   ELSE Prop1("", Hole)])
    [] OTHER -> n

RECURSIVE baseSet(_, _, _)
\* baseSet without the replacement of a non-object on the way: the write is lost.
baseSet_keep(nested, keys, value) ==
  IF Len(keys) = 1 THEN assignValue(nested, keys[1], value)
  ELSE LET objValue == GetProp(nested, keys[1])
       IN IF IsObject(objValue)
          THEN assignValue(nested, keys[1], baseSet(objValue, Tail(keys), value))
          ELSE nested

baseSet(nested, keys, value) ==
  IF Len(keys) = 1 THEN assignValue(nested, keys[1], value)
  ELSE LET objValue == GetProp(nested, keys[1])
           newValue == IF IsObject(objValue) THEN objValue
                       ELSE IF IsIndex(keys[2]) THEN Arr(<<>>) ELSE Obj(<<>>)
       IN assignValue(nested, keys[1], baseSet(newValue, Tail(keys), value))

\* set(object, path, value); the trees of the store are always objects.
set(object, path, value) ==
  IF ~IsObject(object) THEN object ELSE baseSet(object, stringToPath(path), value)

\* ------------------------------------------------------------ lodash cloneDeep
\* cloneDeep(value): a copy with no shared parts; baseClone walks an array by
\* index and assigns every element, so a hole comes out as undefined.
RECURSIVE cloneDeep(_)
cloneDeep(n) ==
  IF n.t = "hole" THEN Undefined
  ELSE [n EXCEPT !.kids = [i \in 1..Len(n.kids) |-> Prop1(n.kids[i].k, cloneDeep(n.kids[i].n))]]

\* ------------------------------------------------------------ keyify
\* Object.keys(n); null and undefined make it throw, see keyify.
ObjectKeys(n) ==
  CASE n.t = "obj" -> [i \in 1..Len(n.kids) |-> n.kids[i].k]
    [] n.t = "arr" ->
         LET present == {i \in 1..Len(n.kids) : n.kids[i].n.t # "hole"}
             nth(j) == CHOOSE i \in present : Cardinality({x \in present : x < i}) = j - 1
         IN [j \in 1..Cardinality(present) |-> ToString(nth(j) - 1)]
    [] n.t = "str" -> [i \in 1..Len(n.v) |-> ToString(i - 1)]
    [] OTHER -> <<>>

\* keyify(obj, prefix): [threw, paths]. The forEach over a non-empty array (lines
\* 17-22) drops what it collects, but still calls keyify on every element, which
\* throws a TypeError on a null or undefined one; every path is built with dots.
RECURSIVE keyify(_, _)
RECURSIVE keyifyReduce(_, _, _, _)
\* keyifyReduce that lists nothing below an array.
keyifyReduce_skipArrays(obj, prefix, keys, res) ==
  IF keys = <<>> THEN [threw |-> FALSE, paths |-> res]
  ELSE
    LET el == Head(keys)
        child == GetProp(obj, el)
        sub == IF child.t = "arr" THEN [threw |-> FALSE, paths |-> <<>>]
               ELSE IF IsObject(child) THEN keyify(child, prefix \o <<Dot(el)>>)
               ELSE [threw |-> FALSE, paths |-> <<prefix \o <<Dot(el)>>>>]
    IN IF sub.threw THEN [threw |-> TRUE, paths |-> <<>>]
       ELSE keyifyReduce(obj, prefix, Tail(keys), res \o sub.paths)

keyifyReduce(obj, prefix, keys, res) ==
  IF keys = <<>> THEN [threw |-> FALSE, paths |-> res]
  ELSE
    LET el == Head(keys)
        child == GetProp(obj, el)
        each == IF child.t = "arr" /\ Len(child.kids) > 0
                THEN {keyify(child.kids[i].n, prefix \o <<Brk(ToString(i - 1))>>) :
                        i \in {j \in 1..Len(child.kids) : child.kids[j].n.t # "hole"}}
                ELSE {}
        sub == IF IsObject(child)
               THEN keyify(child, prefix \o <<Dot(el)>>)
               ELSE [threw |-> FALSE, paths |-> <<prefix \o <<Dot(el)>>>>]
    IN IF (\E r \in each : r.threw) \/ sub.threw
       THEN [threw |-> TRUE, paths |-> <<>>]
       ELSE keyifyReduce(obj, prefix, Tail(keys), res \o sub.paths)

keyify(obj, prefix) ==
  IF obj.t \in {"undefined", "null"} THEN [threw |-> TRUE, paths |-> <<>>]
  ELSE keyifyReduce(obj, prefix, ObjectKeys(obj), <<>>)

\* ------------------------------------------------------------ lodash pullAt
\* pullAt(array, index): [threw, n]. basePullAt splices an array; it leaves a
\* null, undefined or falsy target alone; Array.prototype.splice applied to a
\* non-empty string throws a TypeError (its indices and length are read-only), 
\* applied to true or a number it changes nothing, and applied to a plain object
\* it writes length = 0.
pullAt(array, index) ==
  CASE array.t = "arr" ->
         [threw |-> FALSE,
          n |-> IF index < Len(array.kids)
                THEN Arr(SubSeq(array.kids, 1, index)
                           \o SubSeq(array.kids, index + 2, Len(array.kids)))
                ELSE array]
    [] array.t = "str" /\ Truthy(array) -> [threw |-> TRUE, n |-> array]
    [] array.t = "obj" -> [threw |-> FALSE, n |-> assignValue(array, "length", Num("0"))]
    [] OTHER -> [threw |-> FALSE, n |-> array]

\* ------------------------------------------------------------ registries
\* container[path], a flat map keyed by the path string (undefined as <<>>).
At(container, path) == IF path \in DOMAIN container THEN container[path] ELSE <<>>

\* push(container, path, functionToAdd), lines 30-34.
push(container, path, functionToAdd) ==
  [p \in DOMAIN container \cup {path} |-> IF p = path
                                          THEN Append(At(container, path), functionToAdd)
                                          ELSE container[p]]

\* remove(container, path, functionToRemove), lines 37-42: filter drops every
\* entry that is the function.
remove(container, path, functionToRemove) ==
  [p \in DOMAIN container \cup {path} |-> IF p = path
                                          THEN SelectSeq(At(container, path),
                                                         LAMBDA f : f # functionToRemove)
                                          ELSE container[p]]

\* ------------------------------------------------------------ validators
\* The validator functions a form item can bring: (value) -> '' | message.
\*   required  v => (v ? '' : 'E')
\*   notA      v => (v === 'a' ? 'F' : '')
\*   ok        () => ''              (defaultValidator, line 339)
Validators == {"required", "notA", "ok"}
validator(f, value) ==
  CASE f = "required" -> IF Truthy(value) THEN EmptyStr ELSE Str(<<"E">>)
    [] f = "notA" -> IF value = Str(<<"a">>) THEN Str(<<"F">>) ELSE EmptyStr
    [] OTHER -> EmptyStr

\* get(localValidators.current, path, []) of runLocalValidators, line 86: lodash
\* takes the path string as one key when the registry has it (isKey), and parses
\* it otherwise; a parsed 'items[0]' then reads element 0 of the list registered
\* under 'items', a function, on which .reduce is not callable (threw).
GetValidators(container, path) ==
  LET keys == stringToPath(path)
      first == At(container, <<Dot(keys[1])>>)
  IN IF path \in DOMAIN container \/ Len(keys) = 1
     THEN [threw |-> FALSE, fns |-> At(container, path)]
     ELSE IF IsIndex(keys[2]) /\ IndexOf(keys[2]) < Len(first)
               /\ (Len(keys) = 2 \/ (Len(keys) = 3 /\ keys[3] \in {"name", "length"}))
          THEN [threw |-> TRUE, fns |-> <<>>]
          ELSE [threw |-> FALSE, fns |-> <<>>]

\* The reduce of line 86-89: acc || validator(value), from ''.
RECURSIVE reduceValidators(_, _, _)
reduceValidators(fns, value, acc) ==
  IF fns = <<>> THEN acc
  ELSE reduceValidators(Tail(fns), value,
                        IF Truthy(acc) THEN acc ELSE validator(Head(fns), value))

\* ------------------------------------------------------------ the store
\* The refs of FormProvider (lines 45-68) and what one call leaves behind:
\*   fired  the observers the call invoked, in order
\*   threw  "" or the error the call threw ("Error", "TypeError")
\*   ret    what the call returned
VARIABLES
  contextValidator,    \* props.validate, line 45
  initState,           \* line 48
  formValue,           \* line 50
  formDirty,           \* line 51
  formError,           \* line 52
  formUniqueIds,       \* line 55
  localValidators,     \* line 58
  formValid,           \* line 61
  invalidPathSet,      \* line 62
  forceUpdates,        \* line 65
  forceUpdatesByPath,  \* line 68
  idCounter,           \* lodash uniqueId's counter
  disposers,           \* the disposers handed out and not yet called
  lastOp,              \* the last call: name, arguments, fired, threw, ret, and
                       \* the name of the call before it (prev)
  called,              \* the names of the operations called so far
  issuedIds,           \* the [path, id] pairs getUniqueId has returned for the
                       \* paths no arrayRemove has renumbered since
  disposedObservers,   \* the [path, cb] pairs whose disposer has been called
                       \* and that were not subscribed again since
  steps,               \* number of calls made
  budget               \* number of calls the session makes

vars == <<contextValidator, initState, formValue, formDirty, formError,
          formUniqueIds, localValidators, formValid, invalidPathSet,
          forceUpdates, forceUpdatesByPath, idCounter, disposers, lastOp, called,
          issuedIds, disposedObservers, steps, budget>>

\* The store as one record, for the functions below.
Store == [contextValidator |-> contextValidator, initState |-> initState,
          formValue |-> formValue, formDirty |-> formDirty, formError |-> formError,
          formUniqueIds |-> formUniqueIds, localValidators |-> localValidators,
          formValid |-> formValid, invalidPathSet |-> invalidPathSet,
          forceUpdates |-> forceUpdates, forceUpdatesByPath |-> forceUpdatesByPath,
          idCounter |-> idCounter, fired |-> <<>>, threw |-> "", ret |-> Undefined]

\* Sequencing: a statement after a throw is not executed.
Then(S, next(_)) == IF S.threw # "" THEN S ELSE next(S)
Throw(S, error) == [S EXCEPT !.threw = error]

\* Lines 71-78.
getFormValues(S, path) ==
  IF path # <<>> THEN get(S.formValue, path, EmptyStr) ELSE S.formValue
getFormDirty(S, path) ==
  IF path # <<>> THEN get(S.formDirty, path, EmptyStr) ELSE S.formDirty
getFormError(S, path) ==
  IF path # <<>> THEN get(S.formError, path, JsFalse) ELSE S.formError
getFormValid(S) == S.formValid

\* Lines 80-81.
\* setFormDirty that writes the flag into ErrorTree as well.
setFormDirty_andError(S, path, value) ==
  [S EXCEPT !.formDirty = set(@, path, value), !.formError = set(@, path, value)]

setFormDirty(S, path, value) == [S EXCEPT !.formDirty = set(@, path, value)]
setFormError(S, path, value) == [S EXCEPT !.formError = set(@, path, value)]

\* Lines 85-92.
runLocalValidators(S, path, value) ==
  LET found == GetValidators(S.localValidators, path)
  IN IF found.threw THEN Throw(S, "TypeError")
     ELSE setFormError(S, path, reduceValidators(found.fns, value, EmptyStr))

\* The form-level validators a FormProvider is given (props.validate):
\*   none              no validator
\*   usernameRequired  values => (values.username ? {} : { username: 'U' })
ContextValidators == {"none", "usernameRequired"}
callContextValidator(name, values, errors) ==
  IF name = "usernameRequired" /\ ~Truthy(get(values, <<Dot("username")>>, Undefined))
  THEN Obj(<<Prop1("username", Str(<<"U">>))>>)
  ELSE Obj(<<>>)

\* Lines 106-110: the forEach over the leaf paths of the returned error object.
RECURSIVE mergeErrors(_, _, _, _)
mergeErrors(S, path, errorObject, errorPaths) ==
  IF errorPaths = <<>> THEN S
  ELSE LET errorPath == Head(errorPaths)
           newErrorMessage == get(errorObject, errorPath, Undefined)
           S1 == [S EXCEPT !.invalidPathSet = @ \cup {path}]
       IN mergeErrors(setFormError(S1, errorPath, newErrorMessage), path,
                      errorObject, Tail(errorPaths))

\* Lines 100-111.
runContextValidator(S, path) ==
  IF S.contextValidator = "none" THEN S
  ELSE LET errorObject == callContextValidator(S.contextValidator, S.formValue, S.formError)
           keys == keyify(errorObject, <<>>)
       IN IF keys.threw THEN Throw(S, "TypeError")
          ELSE mergeErrors(S, path, errorObject, keys.paths)

\* Lines 246-251 and the disposer of lines 253-261.
subscribeForceUpdate(S, path, forceUpdate) ==
  IF path # <<>>
  THEN [S EXCEPT !.forceUpdatesByPath = push(@, path, forceUpdate)]
  ELSE [S EXCEPT !.forceUpdates = Append(@, forceUpdate)]

disposeForceUpdate(S, path, forceUpdate) ==
  IF path # <<>>
  THEN [S EXCEPT !.forceUpdatesByPath = remove(@, path, forceUpdate)]
  ELSE [S EXCEPT !.forceUpdates = SelectSeq(@, LAMBDA f : f # forceUpdate)]

\* ------------------------------------------------------------ observers
\* The callbacks handed to subscribeForceUpdate. forceUpdate of a component
\* ("f1", "f2") only schedules a render; the store takes any function, and a
\* callback may call back into the store:
\*   addF2   () => subscribeForceUpdate('items', f2)
\*   dropF2  () => disposeF2()      the disposer of f2's subscription to 'items'
\*   again   () => { if (getFormValues('username') !== 'a') updateValue('username', 'a') }
\* The log fired lists every invocation in order; the invocations of a nested
\* setFormValue stand between "(" and ")".
RECURSIVE setFormValue(_, _, _)
invoke(S, forceUpdate) ==
  CASE forceUpdate = "addF2" -> subscribeForceUpdate(S, <<Dot("items")>>, "f2")
    [] forceUpdate = "dropF2" -> disposeForceUpdate(S, <<Dot("items")>>, "f2")
    [] forceUpdate = "again" ->
         IF getFormValues(S, <<Dot("username")>>) # Str(<<"a">>)
         THEN Then(setFormValue([S EXCEPT !.fired = Append(@, "(")],
                                <<Dot("username")>>, Str(<<"a">>)),
                   LAMBDA T : [T EXCEPT !.fired = Append(@, ")")])
         ELSE S
    [] OTHER -> S

\* observers.forEach(forceUpdate => forceUpdate()): forEach visits the elements
\* the array held when the loop started; a callback that throws ends the loop.
RECURSIVE Fire(_, _)
Fire(S, observers) ==
  IF observers = <<>> \/ S.threw # "" THEN S
  ELSE Fire(invoke([S EXCEPT !.fired = Append(@, Head(observers))], Head(observers)),
            Tail(observers))

\* (forceUpdatesByPath.current[path] || []).forEach(...), lines 129, 170, 221, 241.
FirePath(S, path) == Fire(S, At(S.forceUpdatesByPath, path))

\* Lines 113-131.
updateValidity(S, path) ==
  LET errorMessage == get(S.formError, path, Undefined)
      invalid == IF Truthy(errorMessage) THEN S.invalidPathSet \cup {path}
                 ELSE S.invalidPathSet \ {path}
      S1 == [S EXCEPT !.invalidPathSet = invalid, !.formValid = (invalid = {})]
  IN Then(Fire(S1, S1.forceUpdates), LAMBDA T : FirePath(T, path))

\* Lines 95-132.
setFormValue(S, path, value) ==
  LET S1 == [S EXCEPT !.formValue = set(@, path, value)]
      S2 == runLocalValidators(S1, path, value)
      S3 == Then(S2, LAMBDA T : runContextValidator(T, path))
  IN Then(S3, LAMBDA T : updateValidity(T, path))

\* ------------------------------------------------------------ subscribe
\* The validate argument of subscribe: [kind, fns] with kind "fn" (one function,
\* fns = <<f>>), "list" (an array, whose elements are functions or the number 0,
\* written "0") or "other" (a value that is neither, such as a number).
IsFunction(e) == e \in Validators

\* Lines 136-142: the forEach over a validate array.
RECURSIVE pushEach(_, _, _)
pushEach(S, path, elems) ==
  IF elems = <<>> THEN S
  ELSE IF IsFunction(Head(elems))
       THEN pushEach([S EXCEPT !.localValidators = push(@, path, Head(elems))],
                     path, Tail(elems))
       ELSE Throw(S, "Error")

\* Lines 134-153 (the disposer of lines 155-163 is disposeItem).
subscribe(S, path, validate) ==
  LET S1 == IF validate.kind = "list" /\ validate.fns # <<>>
            THEN pushEach(S, path, validate.fns) ELSE S
      register(T) == IF validate.kind = "fn"
                     THEN [T EXCEPT !.localValidators = push(@, path, validate.fns[1])]
                     ELSE T
      S2 == Then(S1, register)
      S3 == Then(S2, LAMBDA T : setFormValue(T, path, getFormValues(T, path)))
      S4 == Then(S3, LAMBDA T : setFormDirty(T, path, getFormDirty(T, path)))
  IN Then(S4, LAMBDA T : setFormError(T, path, getFormError(T, path)))

\* Lines 155-163.
RECURSIVE removeEach(_, _, _)
removeEach(container, path, elems) ==
  IF elems = <<>> THEN container
  ELSE removeEach(remove(container, path, Head(elems)), path, Tail(elems))

disposeItem(S, path, validate) ==
  [S EXCEPT !.localValidators =
     IF validate.kind = "list" /\ validate.fns # <<>>
     THEN removeEach(@, path, validate.fns)
     ELSE remove(@, path, IF validate.kind = "fn" THEN validate.fns[1] ELSE "other")]

\* ------------------------------------------------------------ dirty, reset, submit
\* Lines 167-174.
RECURSIVE dirtyEach(_, _, _)
\* dirtyEach writing through setFormError instead of setFormDirty.
dirtyEach_error(S, paths, boolean) ==
  IF paths = <<>> \/ S.threw # "" THEN S
  ELSE LET path == Head(paths)
       IN dirtyEach(Fire(setFormError(S, path, boolean), At(S.forceUpdatesByPath, path)),
                    Tail(paths), boolean)

dirtyEach(S, paths, boolean) ==
  IF paths = <<>> \/ S.threw # "" THEN S
  ELSE LET path == Head(paths)
       IN dirtyEach(Fire(setFormDirty(S, path, boolean), At(S.forceUpdatesByPath, path)),
                    Tail(paths), boolean)

setAllFormDirty(S, boolean) ==
  LET keys == keyify(S.formDirty, <<>>)
  IN IF keys.threw THEN Throw(S, "TypeError") ELSE dirtyEach(S, keys.paths, boolean)

\* Lines 186-188.
RECURSIVE setEach(_, _, _)
setEach(S, newFormState, paths) ==
  IF paths = <<>> \/ S.threw # "" THEN S
  ELSE setEach(setFormValue(S, Head(paths), get(newFormState, Head(paths), Undefined)),
               newFormState, Tail(paths))

\* Lines 177-193. options is "omitted" when the call has no third argument (the
\* parameter { keepDirty = false } has no default, so binding it throws before
\* the body runs), else "keepDirty" or "clearDirty".
initialize(S, newFormState, replaceInitState, options) ==
  IF options = "omitted" THEN Throw(S, "TypeError")
  ELSE LET S1 == IF replaceInitState THEN [S EXCEPT !.initState = cloneDeep(newFormState)] ELSE S
           keys == keyify(newFormState, <<>>)
           S2 == IF keys.threw THEN Throw(S1, "TypeError")
                 ELSE setEach(S1, newFormState, keys.paths)
       IN IF options = "keepDirty" THEN S2
          ELSE Then(S2, LAMBDA T : setAllFormDirty(T, JsFalse))

\* Lines 197-198.
reset(S) == initialize(S, S.initState, FALSE, "clearDirty")

\* Lines 202-209.
submit(S) ==
  Then(setAllFormDirty(S, JsTrue),
       LAMBDA T : [T EXCEPT !.ret = Obj(<<Prop1("valid", Bool(getFormValid(T))),
                                          Prop1("values", getFormValues(T, <<>>)),
                                          Prop1("errors", getFormError(T, <<>>))>>)])

\* ------------------------------------------------------------ arrays
\* Lines 211-224. value is Null when the argument is omitted (value = null).
arrayPush(S, path, value) ==
  LET currentValue == get(S.formValue, path, Undefined)
      currentArrayLength == IF currentValue.t = "arr" THEN Len(currentValue.kids) ELSE 0
      S1 == IF Truthy(value)
            THEN setFormValue(S, path \o <<Brk(ToString(currentArrayLength))>>, value)
            ELSE S
  IN Then(S1, LAMBDA T : Fire(T, At(T.forceUpdatesByPath, path)))

\* Lines 234-239 for one container: pullAt changes the array found at path in
\* place, so the container holds the spliced array at the same place.
pullFrom(container, path, index) ==
  LET array == get(container, path, Undefined)
      pulled == pullAt(array, index)
  IN [threw |-> pulled.threw,
      n |-> IF IsObject(array) THEN set(container, path, pulled.n) ELSE container]

\* One round of the forEach of lines 234-239; a throw ends the loop.
pullValue(S, path, index) ==
  LET r == pullFrom(S.formValue, path, index)
  IN [S EXCEPT !.formValue = r.n, !.threw = IF r.threw THEN "TypeError" ELSE ""]
pullError(S, path, index) ==
  LET r == pullFrom(S.formError, path, index)
  IN [S EXCEPT !.formError = r.n, !.threw = IF r.threw THEN "TypeError" ELSE ""]
pullDirty(S, path, index) ==
  LET r == pullFrom(S.formDirty, path, index)
  IN [S EXCEPT !.formDirty = r.n, !.threw = IF r.threw THEN "TypeError" ELSE ""]
pullUniqueIds(S, path, index) ==
  LET r == pullFrom(S.formUniqueIds, path, index)
  IN [S EXCEPT !.formUniqueIds = r.n, !.threw = IF r.threw THEN "TypeError" ELSE ""]

\* arrayRemove without the Array.isArray guard of lines 229-231.
arrayRemove_noGuard(S, path, index) ==
  Then(Then(Then(Then(pullValue(S, path, index),
                      LAMBDA T : pullError(T, path, index)),
                 LAMBDA T : pullDirty(T, path, index)),
            LAMBDA T : pullUniqueIds(T, path, index)),
       LAMBDA T : Fire(T, At(T.forceUpdatesByPath, path)))

\* Lines 226-244.
arrayRemove(S, path, index) ==
  IF get(S.formValue, path, Undefined).t # "arr" THEN Throw(S, "Error")
  ELSE Then(Then(Then(Then(pullValue(S, path, index),
                           LAMBDA T : pullError(T, path, index)),
                      LAMBDA T : pullDirty(T, path, index)),
                 LAMBDA T : pullUniqueIds(T, path, index)),
            LAMBDA T : Fire(T, At(T.forceUpdatesByPath, path)))

\* ------------------------------------------------------------ unique ids
\* lodash uniqueId('formItem_'): the prefix and the incremented counter.
uniqueId(counter) == Str(<<"f", "o", "r", "m", "I", "t", "e", "m", "_", ToString(counter)>>)

\* Lines 264-270.
getFormItemUniqueId(S, path) ==
  LET found == get(S.formUniqueIds, path, Undefined)
      id == uniqueId(S.idCounter + 1)
  IN IF Truthy(found) THEN [S EXCEPT !.ret = found]
     ELSE [S EXCEPT !.idCounter = @ + 1, !.formUniqueIds = set(@, path, id), !.ret = id]

\* ------------------------------------------------------------ inputs
\* The path strings the callers use: 'username', 'items', 'items[0]', 'items[1]'.
Paths == {<<Dot("username")>>, <<Dot("items")>>,
          <<Dot("items"), Brk("0")>>, <<Dot("items"), Brk("1")>>}
ArrayPaths == {<<Dot("items")>>}
IdPaths == {<<Dot("items")>>, <<Dot("items"), Brk("0")>>, <<Dot("items"), Brk("1")>>}
\* The values written: '', 'a' and undefined.
Values == {EmptyStr, Str(<<"a">>), Undefined}
\* The validate arguments: a function, a list of functions, a list with a
\* non-function after a function, and a number.
NoValidate == [kind |-> "none", fns |-> <<>>]
Validates == {[kind |-> "fn", fns |-> <<"required">>],
              [kind |-> "list", fns |-> <<"notA", "required">>],
              [kind |-> "list", fns |-> <<"required", "0">>],
              [kind |-> "other", fns |-> <<>>]}
\* The observer callbacks (forceUpdate of two components).
Observers == {"f1", "f2"}
ObserverPaths == {<<>>, <<Dot("items")>>}
\* The initValue props: the default {} and { username: 'a', items: ['a', 'b'] }.
InitValues == {Obj(<<>>),
               Obj(<<Prop1("username", Str(<<"a">>)),
                     Prop1("items", Arr(Elems(<<Str(<<"a">>), Str(<<"b">>)>>)))>>)}
\* The tree initialize is called with: { username: '', items: ['b'] }.
NewFormStates == {Obj(<<Prop1("username", EmptyStr),
                        Prop1("items", Arr(Elems(<<Str(<<"b">>)>>)))>>)}

\* The ways initialize is called: initialize(tree), initialize(tree, true, {}),
\* initialize(tree, false, {}) and initialize(tree, true, { keepDirty: true }).
InitializeCalls == {<<TRUE, "omitted">>, <<TRUE, "clearDirty">>,
                    <<FALSE, "clearDirty">>, <<TRUE, "keepDirty">>}

\* ------------------------------------------------------------ state machine
\* FormProvider's construction, lines 45-68.
Construct ==
  /\ contextValidator \in ContextValidators
  /\ \E initValue \in InitValues :
       /\ initState = cloneDeep(initValue)
       /\ formValue = cloneDeep(initValue)
  /\ formDirty = Obj(<<>>)
  /\ formError = Obj(<<>>)
  /\ formUniqueIds = Obj(<<>>)
  /\ localValidators = <<>>
  /\ formValid = TRUE
  /\ invalidPathSet = {}
  /\ forceUpdates = <<>>
  /\ forceUpdatesByPath = <<>>
  /\ idCounter = 0
  /\ disposers = <<>>
  /\ lastOp = [op |-> "new", prev |-> "", path |-> <<>>, value |-> Undefined, index |-> 0,
               validate |-> NoValidate, fired |-> <<>>, threw |-> "", ret |-> Undefined]
  /\ called = {}
  /\ issuedIds = {}
  /\ disposedObservers = {}
  /\ steps = 0

Init == Construct /\ budget = MaxSteps

\* The call just made, as lastOp records it.
Call(op, path, value, index, validate) ==
  [op |-> op, prev |-> lastOp.op, path |-> path, value |-> value, index |-> index,
   validate |-> validate, fired |-> <<>>, threw |-> "", ret |-> Undefined]

\* The store a call leaves behind becomes the state.
IsPrefix(p, q) == Len(p) <= Len(q) /\ SubSeq(q, 1, Len(p)) = p

Commit(R, call) ==
  /\ steps < budget
  /\ steps' = steps + 1
  /\ budget' = budget
  /\ called' = called \cup {call.op}
  /\ issuedIds' =
       CASE call.op = "getUniqueId" -> issuedIds \cup {[path |-> call.path, id |-> R.ret]}
         [] call.op = "arrayRemove" ->
              {x \in issuedIds : ~IsPrefix(stringToPath(call.path), stringToPath(x.path))}
         [] OTHER -> issuedIds
  /\ disposedObservers' =
       CASE call.op = "disposeObserver" ->
              disposedObservers \cup {[path |-> call.path, cb |-> call.value.v[1]]}
         [] call.op = "subscribeObserver" ->
              disposedObservers \ {[path |-> call.path, cb |-> call.value.v[1]]}
         [] OTHER -> disposedObservers
  /\ contextValidator' = R.contextValidator
  /\ initState' = R.initState
  /\ formValue' = R.formValue
  /\ formDirty' = R.formDirty
  /\ formError' = R.formError
  /\ formUniqueIds' = R.formUniqueIds
  /\ localValidators' = R.localValidators
  /\ formValid' = R.formValid
  /\ invalidPathSet' = R.invalidPathSet
  /\ forceUpdates' = R.forceUpdates
  /\ forceUpdatesByPath' = R.forceUpdatesByPath
  /\ idCounter' = R.idCounter
  /\ lastOp' = [call EXCEPT !.fired = R.fired, !.threw = R.threw, !.ret = R.ret]

SetValue(path, value) ==
  /\ Commit(setFormValue(Store, path, value), Call("setValue", path, value, 0, NoValidate))
  /\ UNCHANGED disposers

SetDirty(path, value) ==
  /\ Commit(setFormDirty(Store, path, value), Call("setDirty", path, value, 0, NoValidate))
  /\ UNCHANGED disposers

\* subscribe hands out its disposer when it returns.
SubscribeItem(path, validate) ==
  LET R == subscribe(Store, path, validate)
  IN /\ Commit(R, Call("subscribeItem", path, Undefined, 0, validate))
     /\ disposers' = IF R.threw = "" THEN Append(disposers, [kind |-> "item", path |-> path,
                                                             validate |-> validate, cb |-> ""])
                     ELSE disposers

SubscribeObserver(path, forceUpdate) ==
  /\ Commit(subscribeForceUpdate(Store, path, forceUpdate),
            Call("subscribeObserver", path, Str(<<forceUpdate>>), 0, NoValidate))
  /\ disposers' = Append(disposers, [kind |-> "observer", path |-> path,
                                     validate |-> NoValidate, cb |-> forceUpdate])

\* A disposer is called once (the cleanup of the effect that subscribed).
Dispose(i) ==
  LET d == disposers[i]
  IN /\ Commit(IF d.kind = "item" THEN disposeItem(Store, d.path, d.validate)
               ELSE disposeForceUpdate(Store, d.path, d.cb),
               Call(IF d.kind = "item" THEN "disposeItem" ELSE "disposeObserver",
                    d.path, Str(<<d.cb>>), 0, d.validate))
     /\ disposers' = SubSeq(disposers, 1, i - 1) \o SubSeq(disposers, i + 1, Len(disposers))

Initialize(newFormState, replaceInitState, options) ==
  /\ Commit(initialize(Store, newFormState, replaceInitState, options),
            Call("initialize", <<>>, newFormState, IF replaceInitState THEN 1 ELSE 0,
                 [kind |-> options, fns |-> <<>>]))
  /\ UNCHANGED disposers

Reset ==
  /\ Commit(reset(Store), Call("reset", <<>>, Undefined, 0, NoValidate))
  /\ UNCHANGED disposers

Submit ==
  /\ Commit(submit(Store), Call("submit", <<>>, Undefined, 0, NoValidate))
  /\ UNCHANGED disposers

ArrayPush(path, value) ==
  /\ Commit(arrayPush(Store, path, value), Call("arrayPush", path, value, 0, NoValidate))
  /\ UNCHANGED disposers

ArrayRemove(path, index) ==
  /\ Commit(arrayRemove(Store, path, index), Call("arrayRemove", path, Undefined, index, NoValidate))
  /\ UNCHANGED disposers

GetUniqueId(path) ==
  /\ Commit(getFormItemUniqueId(Store, path), Call("getUniqueId", path, Undefined, 0, NoValidate))
  /\ UNCHANGED disposers

Next ==
  \/ \E path \in Paths, value \in Values : SetValue(path, value)
  \/ \E path \in Paths : SetDirty(path, JsTrue)
  \/ \E path \in Paths, validate \in Validates : SubscribeItem(path, validate)
  \/ \E path \in ObserverPaths, forceUpdate \in Observers : SubscribeObserver(path, forceUpdate)
  \/ \E i \in 1..Len(disposers) : Dispose(i)
  \/ \E newFormState \in NewFormStates, call \in InitializeCalls :
       Initialize(newFormState, call[1], call[2])
  \/ Reset
  \/ Submit
  \/ \E path \in ArrayPaths, value \in {Null, Str(<<"a">>), EmptyStr} : ArrayPush(path, value)
  \/ \E path \in ArrayPaths, index \in 0..1 : ArrayRemove(path, index)
  \/ \E path \in IdPaths : GetUniqueId(path)

Spec == Init /\ [][Next]_vars

\* ------------------------------------------------------------ observer sessions
\* Longer sessions of a form whose items are validated as a whole and observed
\* one by one: subscriptions, disposals and setValue calls only.
ObserverScopes == {<<>>, <<Dot("items"), Brk("0")>>}
ObserverInit == Construct /\ budget = MaxObserverSteps

ObserverNext ==
  \/ SubscribeItem(<<Dot("items")>>, [kind |-> "fn", fns |-> <<"required">>])
  \/ \E path \in ObserverScopes, forceUpdate \in Observers : SubscribeObserver(path, forceUpdate)
  \/ \E i \in 1..Len(disposers) : Dispose(i)
  \/ \E path \in {<<Dot("items")>>, <<Dot("items"), Brk("0")>>} : SetValue(path, Str(<<"a">>))

ObserverSpec == ObserverInit /\ [][ObserverNext]_vars

\* ------------------------------------------------------------ id sessions
\* Sessions of a form that keys an array, its rows and a field of a row by
\* unique id ('items', 'items[0]', 'items[0].name'), between other calls.
IdScopes == {<<Dot("items")>>, <<Dot("items"), Brk("0")>>,
             <<Dot("items"), Brk("0"), Dot("name")>>}
IdInit == Construct /\ budget = MaxIdSteps

IdNext ==
  \/ \E path \in IdScopes : GetUniqueId(path)
  \/ SetValue(<<Dot("items"), Brk("0")>>, Str(<<"a">>))
  \/ SetDirty(<<Dot("items"), Brk("0")>>, JsTrue)
  \/ ArrayPush(<<Dot("items")>>, Str(<<"a">>))
  \/ ArrayRemove(<<Dot("items")>>, 0)
  \/ Submit
  \/ Reset

IdSpec == IdInit /\ [][IdNext]_vars

\* ------------------------------------------------------------ re-entrant sessions
\* Sessions whose observers call back into the store while they are notified.
Callbacks == {"f1", "f2", "addF2", "dropF2", "again"}
ReentrantInit == Construct /\ budget = MaxReentrantSteps

ReentrantNext ==
  \/ \E path \in ObserverPaths, forceUpdate \in Callbacks : SubscribeObserver(path, forceUpdate)
  \/ \E i \in 1..Len(disposers) : Dispose(i)
  \/ \E path \in {<<Dot("items")>>, <<Dot("username")>>}, value \in {EmptyStr, Str(<<"a">>)} :
       SetValue(path, value)

ReentrantSpec == ReentrantInit /\ [][ReentrantNext]_vars

\* ------------------------------------------------------------ properties
\* The property paths of the scalar entries of a tree, listed without keyify.
RECURSIVE LeafKeys(_)
LeafKeys(n) ==
  IF IsObject(n)
  THEN UNION {{<<IF n.t = "arr" THEN ToString(i - 1) ELSE n.kids[i].k>> \o rest :
                 rest \in LeafKeys(n.kids[i].n)} :
              i \in {j \in 1..Len(n.kids) : n.kids[j].n.t # "hole"}}
  ELSE {<<>>}

\* The property paths of ErrorTree that hold a truthy message.
TruthyErrors == {k \in LeafKeys(formError) : Truthy(baseGet(formError, k))}

\* The first non-empty message of a validator list, by position.
FirstMessage(fns, value) ==
  LET failing == {i \in 1..Len(fns) : Truthy(validator(fns[i], value))}
  IN IF failing = {} THEN EmptyStr
     ELSE validator(fns[CHOOSE i \in failing : \A j \in failing : i <= j], value)

PathItems == <<Dot("items")>>
PathItem0 == <<Dot("items"), Brk("0")>>
PathItem1 == <<Dot("items"), Brk("1")>>
PathUsername == <<Dot("username")>>

\* C1: in every reachable state InvalidPathSet is exactly the set of paths whose
\* ErrorTree entry is truthy, and getValid() is true exactly when ErrorTree
\* holds no truthy message.
C1_InvalidPathSetIsTruthyErrors ==
  /\ {stringToPath(p) : p \in invalidPathSet} = TruthyErrors
  /\ getFormValid(Store) = (TruthyErrors = {})

\* C2 as stated: getValue(p) read right after setValue(p, v) returns v, for
\* every value v.
C2_ReadBackAnyValue ==
  lastOp.op = "setValue" => getFormValues(Store, lastOp.path) = lastOp.value

\* C2 as amended: getValue(p) read right after setValue(p, v) returns v for every
\* v other than undefined, and the empty string after setValue(p, undefined).
C2_ReadBackDefinedValue ==
  lastOp.op = "setValue" =>
    getFormValues(Store, lastOp.path) =
      IF lastOp.value = Undefined THEN EmptyStr ELSE lastOp.value

\* A setValue('items[1]', 'a') as third call, on a tree where items is an array.
C2_Witness ==
  /\ lastOp.op = "setValue" /\ steps = 3
  /\ lastOp.path = PathItem1 /\ lastOp.value = Str(<<"a">>)
  /\ get(formValue, PathItems, Undefined).t = "arr"

\* C3: with no global validator, after setValue(p, v) getError(p) is the first
\* non-empty message of p's validators in registration order (else the empty
\* message), p is in InvalidPathSet exactly when it is non-empty, and getValid()
\* is false when it is non-empty.
C3_FirstMessageWins ==
  (contextValidator = "none" /\ lastOp.op = "setValue") =>
    LET message == FirstMessage(At(localValidators, lastOp.path), lastOp.value)
    IN /\ getFormError(Store, lastOp.path) = message
       /\ (lastOp.path \in invalidPathSet) = Truthy(message)
       /\ Truthy(message) => ~getFormValid(Store)

\* C4: with a global validator, after setValue(p, v) every leaf path q of the
\* error tree it returned has getError(q) equal to the returned message and is in
\* InvalidPathSet, and getValid() is false when a returned message is non-empty.
C4_GlobalErrorsAreInvalid ==
  (contextValidator # "none" /\ lastOp.op = "setValue" /\ lastOp.threw = "") =>
    LET errorObject == callContextValidator(contextValidator, formValue, formError)
    IN \A k \in LeafKeys(errorObject) :
         /\ baseGet(formError, k) = baseGet(errorObject, k)
         /\ k \in {stringToPath(p) : p \in invalidPathSet}
         /\ Truthy(baseGet(errorObject, k)) => ~getFormValid(Store)

\* C5: after setValue calls followed by reset(), getValue() is deep-equal to the
\* original initValue.
C5_ResetRestoresInitValue ==
  (lastOp.op = "reset" /\ called \subseteq {"setValue", "reset"}) =>
    getFormValues(Store, <<>>) = initState

\* C6: after reset(), no leaf path of the original initValue reads dirty: its
\* getDirty is false (or the empty string of a path that never held a flag),
\* whatever was subscribed or marked dirty before.
C6_ResetClearsDirty ==
  (lastOp.op = "reset" /\ "initialize" \notin called) =>
    \A k \in LeafKeys(initState) :
      LET dirty == baseGet(formDirty, k)
      IN dirty \in {JsFalse, EmptyStr, Undefined}

\* C7: submit() changes neither ValueTree, ErrorTree, InvalidPathSet nor the
\* validity flag, returns them as they are, and a second submit() right after
\* the first returns the same {valid, values, errors}.
C7_SubmitKeepsValuesAndErrors ==
  [][(lastOp'.op = "submit" /\ steps' = steps + 1) =>
       /\ UNCHANGED <<formValue, formError, invalidPathSet, formValid>>
       /\ lastOp'.ret = Obj(<<Prop1("valid", Bool(formValid)),
                              Prop1("values", formValue),
                              Prop1("errors", formError)>>)
       /\ lastOp.op = "submit" => lastOp'.ret = lastOp.ret]_vars

\* Two submits in a row on a form that holds an error and a dirty entry.
C7_Witness ==
  /\ lastOp.op = "submit" /\ lastOp.prev = "submit" /\ lastOp.threw = ""
  /\ TruthyErrors # {}
  /\ LeafKeys(formDirty) # {}

\* C8: after submit(), getDirty(p) is true for every leaf path p of DirtyTree,
\* also for the paths that were only subscribed and never marked dirty.
C8_SubmitDirtiesEveryLeaf ==
  lastOp.op = "submit" =>
    \A k \in LeafKeys(formDirty) : baseGet(formDirty, k) = JsTrue

\* A submit on a form whose DirtyTree holds an array element, with no setDirty
\* call before it.
C8_Witness ==
  /\ lastOp.op = "submit" /\ "setDirty" \notin called /\ "subscribeItem" \in called
  /\ \E k \in LeafKeys(formDirty) : Len(k) = 2

\* What arrayRemove(path, index) is to leave at path in one tree: the entries
\* below index as they were, the entry at each j >= index the former j + 1.
Shifted(old, new, path, index) ==
  \A j \in 0..(MaxIndex - 1) :
    get(new, path \o <<Brk(ToString(j))>>, Undefined) =
      get(old, path \o <<Brk(ToString(IF j < index THEN j ELSE j + 1))>>, Undefined)

C10_RemoveFromNonArrayThrows ==
  [][(/\ lastOp'.op = "arrayRemove" /\ steps' = steps + 1
      /\ get(formValue, lastOp'.path, Undefined).t # "arr") =>
       /\ lastOp'.threw = "Error"
       /\ lastOp'.fired = <<>>
       /\ UNCHANGED <<formValue, formError, formDirty, formUniqueIds,
                      invalidPathSet, formValid>>]_vars

\* An arrayRemove that threw on a path that has an observer.
C10_Witness ==
  /\ lastOp.op = "arrayRemove" /\ lastOp.threw = "Error"
  /\ At(forceUpdatesByPath, lastOp.path) # <<>>

\* C11: arrayPush(path, x) with x given, falsy x included, leaves at path an
\* array one longer than before (0 counted for an absent or non-array value),
\* with the former elements in place and x as its last element.
C11_PushAppendsEveryValue ==
  [][(lastOp'.op = "arrayPush" /\ steps' = steps + 1 /\ lastOp'.value # Null) =>
       LET old == get(formValue, lastOp'.path, Undefined)
           new == get(formValue', lastOp'.path, Undefined)
           n == IF old.t = "arr" THEN Len(old.kids) ELSE 0
       IN /\ new.t = "arr"
          /\ Len(new.kids) = n + 1
          /\ \A j \in 1..n : new.kids[j] = old.kids[j]
          /\ new.kids[n + 1].n = lastOp'.value]_vars

\* C12: a setValue(p, v) made after a disposer of subscribeObserver was called
\* invokes no callback disposed of for p or for the whole form (unless it is
\* still subscribed in the other scope), and invokes every callback that is
\* still subscribed to p or to the whole form.
C12_DisposedObserverIsSilent ==
  (lastOp.op = "setValue" /\ disposedObservers # {}) =>
    LET scopes == {<<>>, lastOp.path}
        live == {i \in 1..Len(disposers) :
                   disposers[i].kind = "observer" /\ disposers[i].path \in scopes}
        invoked == {lastOp.fired[i] : i \in DOMAIN lastOp.fired}
    IN /\ \A x \in disposedObservers :
            (x.path \in scopes /\ x.cb \in invoked) =>
              \E i \in live : disposers[i].cb = x.cb /\ disposers[i].path # x.path
       /\ \A i \in live :
            [path |-> disposers[i].path, cb |-> disposers[i].cb] \notin disposedObservers
              => disposers[i].cb \in invoked

\* C13: setValue(p, v) invokes every global observer once, in subscription
\* order, then every observer of exactly p once, in subscription order, and no
\* other observer.
C13_NotifiesGlobalThenPath ==
  [][(lastOp'.op = "setValue" /\ steps' = steps + 1) =>
       lastOp'.fired = forceUpdates \o At(forceUpdatesByPath, lastOp'.path)]_vars

\* The number of validators a subscribe call with this validate argument appends.
Appended(validate) ==
  CASE validate.kind = "fn" -> 1
    [] validate.kind = "list" -> Len(validate.fns)
    [] OTHER -> 0

\* C14: the disposer of a subscribeItem call leaves every other path's
\* validator list as it was, and takes from the list of its own path exactly as
\* many entries as the call appended.
C14_DisposerRemovesOnlyItsOwn ==
  [][(lastOp'.op = "disposeItem" /\ steps' = steps + 1) =>
       /\ \A q \in DOMAIN localValidators \ {lastOp'.path} :
            At(localValidators', q) = localValidators[q]
       /\ Len(At(localValidators', lastOp'.path))
            = Len(At(localValidators, lastOp'.path)) - Appended(lastOp'.validate)]_vars

\* C15: subscribeItem with a validate that is neither a function nor a list of
\* functions throws and leaves the validator registry as it was.
C15_InvalidValidateFailsFast ==
  [][(/\ lastOp'.op = "subscribeItem" /\ steps' = steps + 1
      /\ \/ lastOp'.validate.kind = "other"
         \/ /\ lastOp'.validate.kind = "list"
            /\ \E i \in 1..Len(lastOp'.validate.fns) : ~IsFunction(lastOp'.validate.fns[i])) =>
       /\ lastOp'.threw # ""
       /\ localValidators' = localValidators]_vars

\* C16: the identifiers getUniqueId(p) has returned for one path p, with no
\* arrayRemove on an array containing p in between, are one and the same,
\* whatever other calls were made in between.
C16_UniqueIdIsStable ==
  \A a \in issuedIds, b \in issuedIds : a.path = b.path => a.id = b.id

\* The invocations of the outermost round of a log: those outside "(" ... ")".
RECURSIVE OuterRound(_, _)
OuterRound(log, depth) ==
  IF log = <<>> THEN <<>>
  ELSE CASE Head(log) = "(" -> OuterRound(Tail(log), depth + 1)
         [] Head(log) = ")" -> OuterRound(Tail(log), depth - 1)
         [] OTHER -> (IF depth = 0 THEN <<Head(log)>> ELSE <<>>)
                       \o OuterRound(Tail(log), depth)

\* C17: the round of a setValue(p, v) invokes exactly the observers that were
\* subscribed (globally, then to p) when the call was made, each once, whatever
\* the callbacks subscribe, dispose or set meanwhile; and when the call has
\* returned the validity flag says whether InvalidPathSet is empty.
C17_RoundIteratesSnapshot ==
  [][(lastOp'.op = "setValue" /\ steps' = steps + 1) =>
       /\ OuterRound(lastOp'.fired, 0) = forceUpdates \o At(forceUpdatesByPath, lastOp'.path)
       /\ formValid' = (invalidPathSet' = {})]_vars

\* C18: with no global validator, after reset() or initialize(tree) every leaf
\* path p of the applied tree that has validators registered (bracket form
\* included) has getError(p) equal to the first non-empty message of its
\* validators on the restored getValue(p); stated for the calls that return.
C18_ResetRerunsValidators ==
  (contextValidator = "none" /\ lastOp.op \in {"reset", "initialize"} /\ lastOp.threw = "") =>
    LET tree == IF lastOp.op = "reset" THEN initState ELSE lastOp.value
    IN \A p \in Paths :
         (At(localValidators, p) # <<>> /\ stringToPath(p) \in LeafKeys(tree)) =>
           getFormError(Store, p) = FirstMessage(At(localValidators, p), getFormValues(Store, p))

\* C19: initialize(tree) with one argument does not throw, makes InitSnapshot a
\* copy of tree, sets every leaf path of tree and leaves every DirtyTree leaf
\* false.
C19_InitializeDefaults ==
  (lastOp.op = "initialize" /\ lastOp.validate.kind = "omitted") =>
    /\ lastOp.threw = ""
    /\ initState = cloneDeep(lastOp.value)
    /\ \A k \in LeafKeys(lastOp.value) : baseGet(formValue, k) = baseGet(lastOp.value, k)
    /\ \A k \in LeafKeys(formDirty) : baseGet(formDirty, k) = JsFalse

\* C20: setDirty(path, value) writes value into DirtyTree at path, throws
\* nothing, invokes no observer and leaves ValueTree, ErrorTree, IdentityTree,
\* InvalidPathSet, the validity flag, the validator registry and both observer
\* registries as they were.
C20_SetDirtyWritesOnlyDirty ==
  [][(lastOp'.op = "setDirty" /\ steps' = steps + 1) =>
       /\ UNCHANGED <<formValue, formError, formUniqueIds, invalidPathSet, formValid,
                      localValidators, forceUpdates, forceUpdatesByPath>>
       /\ lastOp'.fired = <<>>
       /\ lastOp'.threw = ""
       /\ get(formDirty', lastOp'.path, Undefined) = lastOp'.value]_vars

\* A setDirty on a path that has a validator and an observer.
C20_Witness ==
  /\ lastOp.op = "setDirty"
  /\ At(localValidators, lastOp.path) # <<>>
  /\ At(forceUpdatesByPath, lastOp.path) # <<>>

====
